---- MODULE Spec2Model ----
(***************************************************************************)
(* A model of purpleair-rs: the Measurement trait's derived computations   *)
(* (get_aqi, get_epa_correction, pm_2v5_epa_correction, pm_2v5_aqi_epa),   *)
(* LanMeasurement's typed field accessors over a JSON document, and        *)
(* Sensor::get_measurement.                                                *)
(*                                                                         *)
(* Number representation.  f64 arithmetic is modelled by exact rational    *)
(* arithmetic on scaled integers:                                          *)
(*   - a PM concentration read from a document, and the arguments of       *)
(*     get_epa_correction, are in tenths of a ug/m3;                       *)
(*   - the result of get_epa_correction and the argument of get_aqi are    *)
(*     in thousandths of a ug/m3;                                          *)
(*   - the result of get_aqi is the exact rational w + n/d (0 <= n < d).   *)
(* An f64 is a record [k, m]: k = "fin" with m the scaled value, or one of *)
(* "nan", "pinf" (10*C >= 2^31 - 1, +infinity included), "ninf"            *)
(* (10*C <= -2^31, -infinity included).                                    *)
(***************************************************************************)
EXTENDS Integers, Sequences, FiniteSets, TLC

VARIABLES
    aqi_call,       \* the last call of get_aqi: [arg, t, idx, ret], or NoCall
    aqi_prev,       \* the call of get_aqi before that one, or NoCall
    epa_call,       \* the last call of get_epa_correction: [a, b, h, ret], or NoCall
    meas,           \* the Measurement instance the accessors are called on
    lan_call,       \* the last method call on meas: [op, key, ty, size, pmtype, ch]
    lan_ret,        \* what that call returned (or Panic)
    sensor,         \* the LanSensor: [url, live]
    pc,             \* get_measurement's position
    gm,             \* get_measurement's locals [url, body, json]; req: the URL requested
    n_get,          \* HTTP GETs issued by the current call of get_measurement
    n_construct,    \* calls of construct_measurement by the current call
    gm_ret,         \* what get_measurement returned
    n_calls         \* calls of get_measurement started so far

aqi_vars == <<aqi_call, aqi_prev>>
epa_vars == <<epa_call>>
lan_vars == <<meas, lan_call, lan_ret>>
sensor_vars == <<sensor, pc, gm, n_get, n_construct, gm_ret, n_calls>>
vars == <<aqi_call, aqi_prev, epa_call, meas, lan_call, lan_ret,
          sensor, pc, gm, n_get, n_construct, gm_ret, n_calls>>

NoCall == [op |-> "none"]
\* a component that the specification checked does not exercise
Off == [op |-> "off"]

(***************************************************************************)
(* Bounds of the model.                                                    *)
(***************************************************************************)
\* get_aqi is called with concentrations from -AqiNegTenths to AqiMaxTenths tenths
AqiMaxTenths == 5030
AqiNegTenths == 25
\* get_epa_correction: channel values within +-EpaPmBound tenths,
\* humidity from -EpaHumNeg to EpaHumMax
EpaPmBound == 12
EpaHumMax == 110
EpaHumNeg == 5
\* get_measurement is called at most MaxCalls times
MaxCalls == 3

(***************************************************************************)
(* Option<T> and a panic (a fatal, process-terminating failure).           *)
(***************************************************************************)
Panic == [t |-> "Panic"]
None == [t |-> "None"]
Some(x) == [t |-> "Some", v |-> x]
is_some(o) == o.t = "Some"

(***************************************************************************)
(* measurement.rs: get_aqi                                                 *)
(***************************************************************************)
I32Max == 2147483647
I32Min == -I32Max - 1

\* x / y rounded toward zero, as a float-to-int cast rounds
TruncDiv(x, y) == IF x >= 0 THEN x \div y ELSE -((-x) \div y)

\* a cast that rounds to the nearest tenth instead of truncating
cast_i32_rounding(x) ==
    CASE x.k = "nan" -> 0
      [] x.k = "pinf" -> I32Max
      [] x.k = "ninf" -> I32Min
      [] OTHER -> IF x.m >= 0 THEN (x.m + 50) \div 100 ELSE -((50 - x.m) \div 100)

\* `(10.0 * pm_2v5) as i32`: truncates toward zero, saturates at the ends of
\* i32, and maps NaN to 0.  A finite m is in thousandths, so 10*C = m/100.
cast_i32(x) ==
    CASE x.k = "nan" -> 0
      [] x.k = "pinf" -> I32Max
      [] x.k = "ninf" -> I32Min
      [] OTHER ->
            LET t == TruncDiv(x.m, 100)
            IN  IF t > I32Max THEN I32Max ELSE IF t < I32Min THEN I32Min ELSE t

CONCENTRATION_LIMITS ==
    << <<0, 120>>, <<121, 354>>, <<355, 554>>, <<555, 1504>>,
       <<1505, 2504>>, <<2505, 3504>>, <<3505, 5004>> >>

AQI_LIMITS ==
    << <<0, 50>>, <<51, 100>>, <<101, 150>>, <<151, 200>>,
       <<201, 300>>, <<301, 400>>, <<401, 500>> >>

SetMin(S) == CHOOSE i \in S : \A j \in S : i <= j

\* a filter that leaves the low end of a row out
in_row_strict_low(t, row) == t > row[1] /\ t <= row[2]

\* the filter's predicate: pm_2v5 >= *low && pm_2v5 <= *high
in_row(t, row) == t >= row[1] /\ t <= row[2]

\* .iter().enumerate().filter(..).next().unwrap_or((len - 1, last)): the index
\* (1-based here) of the first row that holds t, the last row when none does
find_row(t) ==
    LET hits == {i \in 1..Len(CONCENTRATION_LIMITS) : in_row(t, CONCENTRATION_LIMITS[i])}
    IN  IF hits = {} THEN Len(CONCENTRATION_LIMITS) ELSE SetMin(hits)

\* an interpolation that measures from the top of the row: (pm_2v5 - c_high)
interpolate_from_high(t, cl, ch, il, ih) ==
    LET d == ch - cl
        q == t \div d
        r == t % d
        num == (ih - il) * (r - ch)
    IN  [w |-> il + (ih - il) * q + (num \div d), n |-> num % d, d |-> d]

\* (i_high - i_low) * (pm_2v5 - c_low) / (c_high - c_low) + i_low with
\* pm_2v5 = t/10, c_low = cl/10, c_high = ch/10, as the exact rational
\* w + n/d with 0 <= n < d.  t is split as q*d + r first, so that no
\* intermediate exceeds 32 bits even at the ends of i32.
interpolate(t, cl, ch, il, ih) ==
    LET d == ch - cl
        q == t \div d
        r == t % d
        num == (ih - il) * (r - cl)
    IN  [w |-> il + (ih - il) * q + (num \div d), n |-> num % d, d |-> d]

\* get_aqi with its locals: t is the truncated tenths value, idx the row used
get_aqi_run(x) ==
    LET t == cast_i32(x)
        idx == find_row(t)
    IN  [op |-> "get_aqi", arg |-> x, t |-> t, idx |-> idx,
         ret |-> interpolate(t, CONCENTRATION_LIMITS[idx][1], CONCENTRATION_LIMITS[idx][2],
                             AQI_LIMITS[idx][1], AQI_LIMITS[idx][2])]

get_aqi(x) == get_aqi_run(x).ret

\* comparisons of get_aqi's results
RatLeq(a, b) == a.w < b.w \/ (a.w = b.w /\ a.n * b.d <= b.n * a.d)
RatEq(a, b) == a.w = b.w /\ a.n * b.d = b.n * a.d
RatIsInt(a, i) == a.w = i /\ a.n = 0

Fin(m) == [k |-> "fin", m |-> m]
Specials == {[k |-> "nan", m |-> 0], [k |-> "pinf", m |-> 0], [k |-> "ninf", m |-> 0]}

\* the concentrations get_aqi is called with: every tenth from -AqiNegTenths to
\* AqiMaxTenths, each exactly and with 0.099 more, and the special values
AqiInputs ==
    {Fin(100 * t + f) : t \in (-AqiNegTenths)..AqiMaxTenths, f \in {0, 99}} \cup Specials

\* the ends of the rows, in tenths, and the first tenth past the table
Landmarks ==
    {CONCENTRATION_LIMITS[i][j] : i \in 1..Len(CONCENTRATION_LIMITS), j \in 1..2}
        \cup {CONCENTRATION_LIMITS[Len(CONCENTRATION_LIMITS)][2] + 1}

\* a second call is made with the next tenth, with a landmark or a special value
NextInputs(x) ==
    (IF x.k = "fin" /\ x.m + 100 <= 100 * AqiMaxTenths + 99 THEN {Fin(x.m + 100)} ELSE {})
        \cup {Fin(100 * t) : t \in Landmarks} \cup Specials

AqiInit == aqi_call = NoCall /\ aqi_prev = NoCall

\* get_aqi is a pure function: a run is one call, or two whose results are
\* compared
CallGetAqi ==
    /\ aqi_prev.op = "none"
    /\ \E x \in (IF aqi_call.op = "none" THEN AqiInputs ELSE NextInputs(aqi_call.arg)) :
          aqi_call' = get_aqi_run(x)
    /\ aqi_prev' = aqi_call
    /\ UNCHANGED <<epa_vars, lan_vars, sensor_vars>>

(***************************************************************************)
(* measurement.rs: get_epa_correction                                      *)
(***************************************************************************)
Max(x, y) == IF x >= y THEN x ELSE y

\* the linear formula without the floor at zero
get_epa_correction_unclamped(pm2v5_cf_1_a, pm2v5_cf_1_b, humidity) ==
    26 * (pm2v5_cf_1_a + pm2v5_cf_1_b) - 85 * humidity + 5710

\* a, b in tenths of a ug/m3, humidity an integer; the result in thousandths.
\* pm2v5_mean = (a + b) / 2 tenths, so 0.52 * pm2v5_mean = 26 * (a + b)
\* thousandths; 0.085 * humidity = 85 * humidity and 5.71 = 5710 thousandths.
get_epa_correction(pm2v5_cf_1_a, pm2v5_cf_1_b, humidity) ==
    LET twice_mean == pm2v5_cf_1_a + pm2v5_cf_1_b
    IN  Max(0, 26 * twice_mean - 85 * humidity + 5710)

EpaInit == epa_call = NoCall

\* get_epa_correction is a pure function: a run is one call
CallGetEpaCorrection ==
    /\ epa_call.op = "none"
    /\ \E a \in (-EpaPmBound)..EpaPmBound, b \in (-EpaPmBound)..EpaPmBound,
          h \in (-EpaHumNeg)..EpaHumMax :
          epa_call' = [op |-> "get_epa_correction", a |-> a, b |-> b, h |-> h,
                       ret |-> get_epa_correction(a, b, h)]
    /\ UNCHANGED <<aqi_vars, lan_vars, sensor_vars>>

(***************************************************************************)
(* serde_json::Value, as far as the accessors look at it.  A number is     *)
(* stored as PosInt(u64), NegInt(i64) or Float(f64); a u64 is hi * 2^63 +  *)
(* v with hi in {0, 1}, so that hi = 1 is a value above i64::MAX.  A       *)
(* Float's v is in tenths; a String's text is s.                           *)
(***************************************************************************)
JFloat(x) == [ty |-> "Float", hi |-> 0, v |-> x, s |-> ""]
JPosInt(hi, lo) == [ty |-> "PosInt", hi |-> hi, v |-> lo, s |-> ""]
JNegInt(x) == [ty |-> "NegInt", hi |-> 0, v |-> x, s |-> ""]
JString(str) == [ty |-> "String", hi |-> 0, v |-> 0, s |-> str]
JNull == [ty |-> "Null", hi |-> 0, v |-> 0, s |-> ""]
Absent == [ty |-> "Absent", hi |-> 0, v |-> 0, s |-> ""]

\* Value::is_f64 / is_i64 / is_u64 / is_string
is_f64(value) == value.ty = "Float"
is_i64(value) == value.ty = "NegInt" \/ (value.ty = "PosInt" /\ value.hi = 0)
is_u64(value) == value.ty = "PosInt"
is_string(value) == value.ty = "String"

\* Value::as_f64 converts an integer too (of one above i64::MAX only v is kept
\* here); as_i64 / as_u64 / as_str do not convert
as_f64(value) ==
    IF value.ty \in {"Float", "PosInt", "NegInt"} THEN Some(value.v) ELSE None
as_i64(value) == IF is_i64(value) THEN Some(value.v) ELSE None
as_u64(value) == IF is_u64(value) THEN Some([hi |-> value.hi, lo |-> value.v]) ELSE None
as_str(value) == IF is_string(value) THEN Some(value.s) ELSE None

\* Option::unwrap
unwrap(o) == IF is_some(o) THEN [t |-> "Ok", v |-> o.v] ELSE Panic

JsonType == {"F64", "I64", "String", "U64"}

(***************************************************************************)
(* lan.rs: LanMeasurement's accessors.  A call returns Panic or            *)
(* [t |-> "Ok", v |-> the value].                                          *)
(***************************************************************************)
Ok(x) == [t |-> "Ok", v |-> x]

\* an assert that lets any number through where a float is expected
type_assert_any_number(value, expected_type) ==
    CASE expected_type = "F64" -> value.ty \in {"Float", "PosInt", "NegInt"}
      [] expected_type = "I64" -> is_i64(value)
      [] expected_type = "String" -> is_string(value)
      [] expected_type = "U64" -> is_u64(value)

\* the assert! of get for each expected_type
type_assert(value, expected_type) ==
    CASE expected_type = "F64" -> is_f64(value)
      [] expected_type = "I64" -> is_i64(value)
      [] expected_type = "String" -> is_string(value)
      [] expected_type = "U64" -> is_u64(value)

get(json, key, expected_type) ==
    IF key \notin DOMAIN json THEN Panic
    ELSE IF ~type_assert(json[key], expected_type) THEN Panic
    ELSE Ok(json[key])

get_string(json, key) ==
    LET r == get(json, key, "String") IN IF r.t = "Panic" THEN Panic ELSE unwrap(as_str(r.v))

get_f64(json, key) ==
    LET r == get(json, key, "F64") IN IF r.t = "Panic" THEN Panic ELSE unwrap(as_f64(r.v))

get_i64(json, key) ==
    LET r == get(json, key, "I64") IN IF r.t = "Panic" THEN Panic ELSE unwrap(as_i64(r.v))

get_u64(json, key) ==
    LET r == get(json, key, "U64") IN IF r.t = "Panic" THEN Panic ELSE unwrap(as_u64(r.v))

get_typed(json, key, ty) ==
    CASE ty = "F64" -> get_f64(json, key)
      [] ty = "I64" -> get_i64(json, key)
      [] ty = "String" -> get_string(json, key)
      [] ty = "U64" -> get_u64(json, key)

\* measurement.rs: the enums and their renderings
PmSize == {"Pm0v3", "Pm0v5", "Pm1v0", "Pm2v5", "Pm5v0", "Pm10v0"}
PmType == {"Atm", "Cf1"}
Channel == <<"A", "B">>

PmSize_string(pm_size) ==
    CASE pm_size = "Pm0v3" -> "0_3"
      [] pm_size = "Pm0v5" -> "0_5"
      [] pm_size = "Pm1v0" -> "1_0"
      [] pm_size = "Pm2v5" -> "2_5"
      [] pm_size = "Pm5v0" -> "5_0"
      [] pm_size = "Pm10v0" -> "10_0"

PmType_string(pm_type) == IF pm_type = "Atm" THEN "atm" ELSE "cf_1"

Channel_string(channel) == IF channel = "A" THEN "" ELSE "_b"

LanMeasurement_humidity(json) == get_i64(json, "current_humidity")

\* a lookup for every size class, the three without a mass field included
LanMeasurement_particulate_mass_every_size(json, pm_size, pm_type, channel) ==
    LET key == "pm" \o PmSize_string(pm_size) \o "_" \o PmType_string(pm_type)
                   \o Channel_string(channel)
        r == get_f64(json, key)
    IN  IF r.t = "Panic" THEN Panic ELSE Some(r.v)

\* a lookup that reports a missing or mistyped field as None
LanMeasurement_particulate_mass_lenient(json, pm_size, pm_type, channel) ==
    IF pm_size \in {"Pm0v3", "Pm0v5", "Pm5v0"} THEN None
    ELSE LET key == "pm" \o PmSize_string(pm_size) \o "_" \o PmType_string(pm_type)
                        \o Channel_string(channel)
             r == get_f64(json, key)
         IN  IF r.t = "Panic" THEN None ELSE Some(r.v)

\* Option<f64>, or Panic
LanMeasurement_particulate_mass(json, pm_size, pm_type, channel) ==
    IF pm_size \in {"Pm0v3", "Pm0v5", "Pm5v0"} THEN None
    ELSE LET key == "pm" \o PmSize_string(pm_size) \o "_" \o PmType_string(pm_type)
                        \o Channel_string(channel)
             r == get_f64(json, key)
         IN  IF r.t = "Panic" THEN Panic ELSE Some(r.v)

(***************************************************************************)
(* measurement.rs: the trait's required methods, dispatched on the         *)
(* implementor.  self.kind = "Lan" is a LanMeasurement over self.json; any *)
(* other implementor of the trait is a record of what its particulate_mass *)
(* (for PM2.5, CF=1) and humidity return.                                  *)
(***************************************************************************)
particulate_mass(self, pm_size, pm_type, channel) ==
    IF self.kind = "Lan"
    THEN LanMeasurement_particulate_mass(self.json, pm_size, pm_type, channel)
    ELSE self.pm[channel]

humidity(self) ==
    IF self.kind = "Lan" THEN LanMeasurement_humidity(self.json) ELSE self.hum

\* Option<f64> in thousandths, or Panic.  Channel::iter() is lazy: channel A is
\* read before channel B, and humidity only once both are there.
pm_2v5_epa_correction(self) ==
    LET ra == particulate_mass(self, "Pm2v5", "Cf1", Channel[1])
    IN  IF ra.t = "Panic" THEN Panic
        ELSE LET rb == particulate_mass(self, "Pm2v5", "Cf1", Channel[2])
             IN  IF rb.t = "Panic" THEN Panic
                 ELSE LET pm_2v5_cf_1 == SelectSeq(<<ra, rb>>, is_some)
                      IN  IF Len(pm_2v5_cf_1) # 2 THEN None
                          ELSE LET h == humidity(self)
                               IN  IF h.t = "Panic" THEN Panic
                                   ELSE Some(get_epa_correction(pm_2v5_cf_1[1].v,
                                                                pm_2v5_cf_1[2].v, h.v))

\* an AQI of the uncorrected channel A reading when the correction is absent
pm_2v5_aqi_epa_fallback(self) ==
    LET r == pm_2v5_epa_correction(self)
        ra == particulate_mass(self, "Pm2v5", "Cf1", Channel[1])
    IN  CASE r.t = "Panic" -> Panic
          [] r.t = "Some" -> Some(get_aqi(Fin(r.v)))
          [] r.t = "None" -> IF ra.t = "Some" THEN Some(get_aqi(Fin(100 * ra.v))) ELSE None

\* Option<the rational get_aqi returns>, or Panic
pm_2v5_aqi_epa(self) ==
    LET r == pm_2v5_epa_correction(self)
    IN  CASE r.t = "Panic" -> Panic
          [] r.t = "Some" -> Some(get_aqi(Fin(r.v)))
          [] r.t = "None" -> None

(***************************************************************************)
(* The measurements the accessors are called on.                           *)
(***************************************************************************)
Keys == {"pm2_5_cf_1", "pm2_5_cf_1_b", "current_humidity", "pm5_0_atm", "pm10_0_atm_b",
         "SensorId"}

\* what a document may hold under each key (Absent: the key is missing)
KeyValues(key) ==
    CASE key = "pm2_5_cf_1" -> {Absent, JFloat(0), JFloat(125), JPosInt(0, 12)}
      [] key = "pm2_5_cf_1_b" -> {Absent, JFloat(0), JFloat(80), JString("8.0")}
      [] key = "current_humidity" ->
            {Absent, JPosInt(0, 40), JPosInt(0, 100), JNegInt(-5), JPosInt(1, 40)}
      [] key = "pm5_0_atm" -> {Absent, JFloat(33)}
      [] key = "pm10_0_atm_b" -> {Absent, JFloat(77), JNull}
      [] key = "SensorId" -> {Absent, JString("84:f3:eb:91:44:50")}

\* the document that holds choice[key] under each key whose choice is not Absent
MakeJson(choice) ==
    [key \in {k \in DOMAIN choice : choice[k].ty # "Absent"} |-> choice[key]]

Documents ==
    {MakeJson([pm2_5_cf_1 |-> a, pm2_5_cf_1_b |-> b, current_humidity |-> h,
               pm5_0_atm |-> x, pm10_0_atm_b |-> y, SensorId |-> z]) :
        a \in KeyValues("pm2_5_cf_1"), b \in KeyValues("pm2_5_cf_1_b"),
        h \in KeyValues("current_humidity"), x \in KeyValues("pm5_0_atm"),
        y \in KeyValues("pm10_0_atm_b"), z \in KeyValues("SensorId")}

EmptyJson == MakeJson([SensorId |-> Absent])

\* lan.rs: construct_measurement
construct_measurement(json) ==
    [kind |-> "Lan", json |-> json, pm |-> [A |-> None, B |-> None], hum |-> Panic]

\* another implementor of the trait: what its required methods return
OtherOutcomes == {Panic, None, Some(0), Some(125)}
OtherMeasurements ==
    {[kind |-> "Other", json |-> EmptyJson, pm |-> [A |-> a, B |-> b], hum |-> h] :
        a \in OtherOutcomes, b \in OtherOutcomes, h \in {Panic, Ok(40), Ok(100)}}

NoArgs == [op |-> "none", key |-> "", ty |-> "", size |-> "", pmtype |-> "", ch |-> ""]

LanInit ==
    /\ meas \in {construct_measurement(json) : json \in Documents} \cup OtherMeasurements
    /\ lan_call = NoArgs
    /\ lan_ret = None

\* The accessors take &self and change nothing, and a panic ends the process:
\* each is called on a measurement as constructed.
Alive == lan_call.op = "none"

CallGet ==
    /\ Alive /\ meas.kind = "Lan"
    /\ \E key \in Keys \cup {"lat"}, ty \in JsonType :
          /\ lan_call' = [NoArgs EXCEPT !.op = "get", !.key = key, !.ty = ty]
          /\ lan_ret' = get(meas.json, key, ty)
    /\ UNCHANGED <<meas, aqi_vars, epa_vars, sensor_vars>>

CallGetTyped ==
    /\ Alive /\ meas.kind = "Lan"
    /\ \E key \in Keys \cup {"lat"}, ty \in JsonType :
          /\ lan_call' = [NoArgs EXCEPT !.op = "get_typed", !.key = key, !.ty = ty]
          /\ lan_ret' = get_typed(meas.json, key, ty)
    /\ UNCHANGED <<meas, aqi_vars, epa_vars, sensor_vars>>

CallParticulateMass ==
    /\ Alive /\ meas.kind = "Lan"
    /\ \E pm_size \in PmSize, pm_type \in PmType, i \in 1..Len(Channel) :
          /\ lan_call' = [NoArgs EXCEPT !.op = "particulate_mass", !.size = pm_size,
                                        !.pmtype = pm_type, !.ch = Channel[i]]
          /\ lan_ret' = particulate_mass(meas, pm_size, pm_type, Channel[i])
    /\ UNCHANGED <<meas, aqi_vars, epa_vars, sensor_vars>>

CallPm2v5EpaCorrection ==
    /\ Alive
    /\ lan_call' = [NoArgs EXCEPT !.op = "pm_2v5_epa_correction"]
    /\ lan_ret' = pm_2v5_epa_correction(meas)
    /\ UNCHANGED <<meas, aqi_vars, epa_vars, sensor_vars>>

CallPm2v5AqiEpa ==
    /\ Alive
    /\ lan_call' = [NoArgs EXCEPT !.op = "pm_2v5_aqi_epa"]
    /\ lan_ret' = pm_2v5_aqi_epa(meas)
    /\ UNCHANGED <<meas, aqi_vars, epa_vars, sensor_vars>>

(***************************************************************************)
(* lan.rs / sensor.rs: LanSensor and Sensor::get_measurement               *)
(***************************************************************************)
\* LanSensor::new: the address joined with "json" (an address that ends in "/")
LanSensor_new(addr, live) == [url |-> addr \o "json", live |-> live]

construct_url(self) == IF self.live THEN self.url \o "?live=true" ELSE self.url

Addresses == {"http://192.168.1.2/", "http://purpleair.local/"}

\* what the device answers: a JSON object, JSON that is no object, no JSON
Bodies ==
    {[kind |-> "object", json |-> MakeJson([SensorId |-> JString("84:f3:eb:91:44:50")])],
     [kind |-> "object", json |-> MakeJson([pm2_5_cf_1 |-> JFloat(125)])],
     [kind |-> "object", json |-> EmptyJson],
     [kind |-> "array", json |-> EmptyJson],
     [kind |-> "garbage", json |-> EmptyJson]}

NoBody == [kind |-> "none", json |-> EmptyJson]
NoLocals == [url |-> "", req |-> "", body |-> NoBody, json |-> EmptyJson]
Err(e) == [t |-> "Err", v |-> e]

SensorInit ==
    /\ sensor \in {LanSensor_new(addr, live) : addr \in Addresses, live \in BOOLEAN}
    /\ pc = "idle"
    /\ gm = NoLocals
    /\ n_get = 0
    /\ n_construct = 0
    /\ gm_ret = None
    /\ n_calls = 0

\* let url = self.construct_url();
GetMeasurementStart ==
    /\ pc = "idle" /\ n_calls < MaxCalls
    /\ n_calls' = n_calls + 1
    /\ gm' = [NoLocals EXCEPT !.url = construct_url(sensor)]
    /\ n_get' = 0 /\ n_construct' = 0 /\ gm_ret' = None
    /\ pc' = "get"
    /\ UNCHANGED <<sensor, aqi_vars, epa_vars, lan_vars>>

\* a request that is sent again after a failure
BlockingGet_retry ==
    /\ pc = "get"
    /\ n_get' = n_get + 1
    /\ \/ \E body \in Bodies :
             /\ gm' = [gm EXCEPT !.req = gm.url, !.body = body]
             /\ pc' = "json"
             /\ gm_ret' = gm_ret
       \/ /\ gm' = [gm EXCEPT !.req = gm.url]
          /\ IF n_get = 0
             THEN gm_ret' = gm_ret /\ pc' = "get"
             ELSE gm_ret' = Err("request") /\ pc' = "returned"
    /\ UNCHANGED <<sensor, n_construct, n_calls, aqi_vars, epa_vars, lan_vars>>

\* blocking::get(url)?: one request; a failure returns the error
BlockingGet ==
    /\ pc = "get"
    /\ n_get' = n_get + 1
    /\ \/ \E body \in Bodies :
             /\ gm' = [gm EXCEPT !.req = gm.url, !.body = body]
             /\ pc' = "json"
             /\ gm_ret' = gm_ret
       \/ /\ gm' = [gm EXCEPT !.req = gm.url]
          /\ gm_ret' = Err("request")
          /\ pc' = "returned"
    /\ UNCHANGED <<sensor, n_construct, n_calls, aqi_vars, epa_vars, lan_vars>>

\* .json::<JsonMap>()?: a body that is no JSON object returns the error
ParseJson ==
    /\ pc = "json"
    /\ IF gm.body.kind = "object"
       THEN gm' = [gm EXCEPT !.json = gm.body.json] /\ pc' = "construct" /\ gm_ret' = gm_ret
       ELSE gm_ret' = Err("decode") /\ pc' = "returned" /\ gm' = gm
    /\ UNCHANGED <<sensor, n_get, n_construct, n_calls, aqi_vars, epa_vars, lan_vars>>

\* Ok(self.construct_measurement(json))
ConstructMeasurement ==
    /\ pc = "construct"
    /\ n_construct' = n_construct + 1
    /\ gm_ret' = Ok(construct_measurement(gm.json))
    /\ pc' = "returned"
    /\ UNCHANGED <<sensor, gm, n_get, n_calls, aqi_vars, epa_vars, lan_vars>>

\* the caller takes the result; the sensor can be asked again
GetMeasurementReturn ==
    /\ pc = "returned"
    /\ pc' = "idle"
    /\ UNCHANGED <<sensor, gm, n_get, n_construct, gm_ret, n_calls,
                   aqi_vars, epa_vars, lan_vars>>

(***************************************************************************)
(* Specifications.  Each component is stateless with respect to the        *)
(* others, so each is checked on its own with the other variables idle.    *)
(***************************************************************************)
AqiIdle == aqi_call = Off /\ aqi_prev = Off
EpaIdle == epa_call = Off
LanIdle ==
    /\ meas = construct_measurement(EmptyJson)
    /\ lan_call = [NoArgs EXCEPT !.op = "off"]
    /\ lan_ret = None
SensorIdle ==
    /\ sensor = LanSensor_new("http://192.168.1.2/", FALSE)
    /\ pc = "off" /\ gm = NoLocals /\ n_get = 0 /\ n_construct = 0
    /\ gm_ret = None /\ n_calls = 0

\* get_aqi
InitAqi == AqiInit /\ EpaIdle /\ LanIdle /\ SensorIdle
NextAqi == CallGetAqi
SpecAqi == InitAqi /\ [][NextAqi]_vars

\* get_epa_correction
InitEpa == EpaInit /\ AqiIdle /\ LanIdle /\ SensorIdle
NextEpa == CallGetEpaCorrection
SpecEpa == InitEpa /\ [][NextEpa]_vars

\* the accessors of a measurement
InitLan == LanInit /\ AqiIdle /\ EpaIdle /\ SensorIdle
NextLan ==
    \/ CallGet
    \/ CallGetTyped
    \/ CallParticulateMass
    \/ CallPm2v5EpaCorrection
    \/ CallPm2v5AqiEpa
SpecLan == InitLan /\ [][NextLan]_vars

\* get_measurement
InitSensor == SensorInit /\ AqiIdle /\ EpaIdle /\ LanIdle
NextSensor ==
    \/ GetMeasurementStart
    \/ BlockingGet
    \/ ParseJson
    \/ ConstructMeasurement
    \/ GetMeasurementReturn
SpecSensor == InitSensor /\ [][NextSensor]_vars

\* the whole library: a run exercises one of the components
Init == InitAqi \/ InitEpa \/ InitLan \/ InitSensor
Next ==
    \/ CallGetAqi
    \/ CallGetEpaCorrection
    \/ CallGet
    \/ CallGetTyped
    \/ CallParticulateMass
    \/ CallPm2v5EpaCorrection
    \/ CallPm2v5AqiEpa
    \/ GetMeasurementStart
    \/ BlockingGet
    \/ ParseJson
    \/ ConstructMeasurement
    \/ GetMeasurementReturn
Spec == Init /\ [][Next]_vars

(***************************************************************************)
(* Claims about get_aqi (checked under SpecAqi).                           *)
(***************************************************************************)
\* the concentration table and the AQI table as the specification states them
SpecConcentrationTable ==
    << <<0, 120>>, <<121, 354>>, <<355, 554>>, <<555, 1504>>,
       <<1505, 2504>>, <<2505, 3504>>, <<3505, 5004>> >>
SpecAqiTable ==
    << <<0, 50>>, <<51, 100>>, <<101, 150>>, <<151, 200>>,
       <<201, 300>>, <<301, 400>>, <<401, 500>> >>

\* the rows of the stated table whose [low, high] holds t
RowsHolding(t) ==
    {i \in 1..7 : SpecConcentrationTable[i][1] <= t /\ t <= SpecConcentrationTable[i][2]}

\* r = (ih - il) * (t - cl) / (ch - cl) + il, cross-multiplied (t within the table)
IsInterpolation(r, t, cl, ch, il, ih) ==
    (r.w * r.d + r.n) * (ch - cl) = ((ih - il) * (t - cl) + il * (ch - cl)) * r.d

\* C2: every truncated tenths value from 0 to 5004 lies in exactly one row of
\* the concentration table, and get_aqi interpolates with that row and the AQI
\* row of the same index.
C2_ExactlyOneRow ==
    (aqi_call.op = "get_aqi" /\ 0 <= aqi_call.t /\ aqi_call.t <= 5004) =>
        /\ Cardinality(RowsHolding(aqi_call.t)) = 1
        /\ aqi_call.idx \in RowsHolding(aqi_call.t)
        /\ IsInterpolation(aqi_call.ret, aqi_call.t,
                           SpecConcentrationTable[aqi_call.idx][1],
                           SpecConcentrationTable[aqi_call.idx][2],
                           SpecAqiTable[aqi_call.idx][1], SpecAqiTable[aqi_call.idx][2])

\* 12.0 was put in the first row and then 12.1 in the second
C2_Witness ==
    /\ aqi_prev.op = "get_aqi" /\ aqi_prev.arg = Fin(12000) /\ aqi_prev.idx = 1
    /\ aqi_call.op = "get_aqi" /\ aqi_call.arg = Fin(12100) /\ aqi_call.idx = 2

RatGreaterInt(a, i) == a.w > i \/ (a.w = i /\ a.n > 0)

\* C3: when no row of the table holds the truncated tenths value, that value is
\* above the table (greater than 5004) and get_aqi returns the extrapolation of
\* the last row, which is greater than 500.
C3_NoRowMeansAboveTable ==
    (aqi_call.op = "get_aqi" /\ RowsHolding(aqi_call.t) = {}) =>
        /\ aqi_call.t > 5004
        /\ RatEq(aqi_call.ret, interpolate(aqi_call.t, 3505, 5004, 401, 500))
        /\ RatGreaterInt(aqi_call.ret, 500)

\* C4: get_aqi maps the low end of each row to the low end of the paired AQI
\* row and the high end to the high end; get_aqi(0.0) = 0, get_aqi(500.4) = 500.
C4_RowEnds ==
    aqi_call.op = "get_aqi" =>
        /\ \A i \in 1..7 :
              /\ aqi_call.arg = Fin(100 * SpecConcentrationTable[i][1])
                    => RatIsInt(aqi_call.ret, SpecAqiTable[i][1])
              /\ aqi_call.arg = Fin(100 * SpecConcentrationTable[i][2])
                    => RatIsInt(aqi_call.ret, SpecAqiTable[i][2])
        /\ aqi_call.arg = Fin(0) => RatIsInt(aqi_call.ret, 0)
        /\ aqi_call.arg = Fin(500400) => RatIsInt(aqi_call.ret, 500)

\* get_aqi(500.4) was called and returned 500
C4_Witness ==
    aqi_call.op = "get_aqi" /\ aqi_call.arg = Fin(500400) /\ RatIsInt(aqi_call.ret, 500)

\* trunc(10 * C) of a non-negative concentration
NonNegative(x) == x.k = "pinf" \/ (x.k = "fin" /\ x.m >= 0)
TruncTenths(x) == IF x.k = "pinf" THEN I32Max ELSE x.m \div 100

\* C10: over non-negative concentrations get_aqi is non-decreasing in the
\* truncated tenths value, and equal where the truncated values are equal.
C10_Monotone ==
    (/\ aqi_prev.op = "get_aqi" /\ aqi_call.op = "get_aqi"
     /\ NonNegative(aqi_prev.arg) /\ NonNegative(aqi_call.arg)) =>
        /\ TruncTenths(aqi_prev.arg) <= TruncTenths(aqi_call.arg)
              => RatLeq(aqi_prev.ret, aqi_call.ret)
        /\ TruncTenths(aqi_call.arg) <= TruncTenths(aqi_prev.arg)
              => RatLeq(aqi_call.ret, aqi_prev.ret)
        /\ TruncTenths(aqi_call.arg) = TruncTenths(aqi_prev.arg)
              => RatEq(aqi_call.ret, aqi_prev.ret)

\* 500.4 and then 500.5, across the top of the table: 500 and then more
C10_Witness ==
    /\ aqi_prev.op = "get_aqi" /\ aqi_prev.arg = Fin(500400)
    /\ aqi_call.op = "get_aqi" /\ aqi_call.arg = Fin(500500)
    /\ RatIsInt(aqi_prev.ret, 500) /\ RatGreaterInt(aqi_call.ret, 500)

(***************************************************************************)
(* Claim about get_epa_correction (checked under SpecEpa).                 *)
(***************************************************************************)
\* 0.52 * ((a + b) / 2) - 0.085 * h + 5.71 in thousandths, a and b in tenths
EpaLinear(a, b, h) == ((520 * (a + b)) \div 20) - 85 * h + 5710

\* C5: get_epa_correction(a, b, h) = max(0, 0.52*((a+b)/2) - 0.085*h + 5.71):
\* never negative, 0 exactly when the linear term is <= 0, and symmetric in
\* a and b.
C5_ClampedSymmetric ==
    epa_call.op = "get_epa_correction" =>
        LET lin == EpaLinear(epa_call.a, epa_call.b, epa_call.h)
        IN  /\ epa_call.ret >= 0
            /\ (epa_call.ret = 0) <=> (lin <= 0)
            /\ lin > 0 => epa_call.ret = lin
            /\ epa_call.ret = get_epa_correction(epa_call.b, epa_call.a, epa_call.h)

\* different channel values in damp air: the linear term is negative, the result 0
C5_Witness ==
    /\ epa_call.op = "get_epa_correction"
    /\ epa_call.a # epa_call.b
    /\ EpaLinear(epa_call.a, epa_call.b, epa_call.h) < 0
    /\ epa_call.ret = 0

(***************************************************************************)
(* Claims about a measurement's accessors (checked under SpecLan).         *)
(***************************************************************************)
IsLan == meas.kind = "Lan"
Missing(key) == key \notin DOMAIN meas.json

\* C1 as stated: on a LanMeasurement pm_2v5_epa_correction returns None, with
\* no fatal error, whenever pm2_5_cf_1 or pm2_5_cf_1_b is missing from the
\* document, and returns a value when both are present.
C1_AbsentWhenFieldMissing ==
    (IsLan /\ lan_call.op = "pm_2v5_epa_correction") =>
        /\ (Missing("pm2_5_cf_1") \/ Missing("pm2_5_cf_1_b")) => lan_ret.t = "None"
        /\ (~Missing("pm2_5_cf_1") /\ ~Missing("pm2_5_cf_1_b")) => lan_ret.t = "Some"

\* the field is there and holds a JSON float
HoldsFloat(key) == ~Missing(key) /\ meas.json[key].ty = "Float"
\* the field is there and holds an integer that fits i64
HoldsI64(key) ==
    /\ ~Missing(key)
    /\ \/ meas.json[key].ty = "NegInt"
       \/ (meas.json[key].ty = "PosInt" /\ meas.json[key].hi = 0)

\* C1 as amended: on a LanMeasurement pm_2v5_epa_correction never returns None;
\* it fails fatally whenever pm2_5_cf_1 or pm2_5_cf_1_b is missing from the
\* document, and returns a value when both hold floats and current_humidity
\* holds an integer that fits i64.
C1_PanicsWhenFieldMissing ==
    (IsLan /\ lan_call.op = "pm_2v5_epa_correction") =>
        /\ lan_ret.t # "None"
        /\ (Missing("pm2_5_cf_1") \/ Missing("pm2_5_cf_1_b")) => lan_ret.t = "Panic"
        /\ (HoldsFloat("pm2_5_cf_1") /\ HoldsFloat("pm2_5_cf_1_b")
              /\ HoldsI64("current_humidity")) => lan_ret.t = "Some"

\* channel A's field is there, channel B's is missing, and the call panicked
C1_Witness ==
    /\ IsLan /\ lan_call.op = "pm_2v5_epa_correction"
    /\ HoldsFloat("pm2_5_cf_1") /\ Missing("pm2_5_cf_1_b") /\ HoldsI64("current_humidity")
    /\ lan_ret.t = "Panic"

\* the key the specification gives for a mass field: pm{size}_{type}[_b]
MassKey(size, type, ch) ==
    "pm" \o (CASE size = "Pm1v0" -> "1_0" [] size = "Pm2v5" -> "2_5" [] size = "Pm10v0" -> "10_0")
         \o (CASE type = "Atm" -> "_atm" [] type = "Cf1" -> "_cf_1")
         \o (CASE ch = "A" -> "" [] ch = "B" -> "_b")

\* C6: particulate_mass returns None for the sizes 0.3, 0.5 and 5.0 um for
\* every type, channel and document, and for 1.0, 2.5 and 10.0 um returns the
\* float stored under pm{size}_{type}{channel suffix} when that field exists.
C6_ParticulateMass ==
    (IsLan /\ lan_call.op = "particulate_mass") =>
        /\ lan_call.size \in {"Pm0v3", "Pm0v5", "Pm5v0"} => lan_ret.t = "None"
        /\ (/\ lan_call.size \in {"Pm1v0", "Pm2v5", "Pm10v0"}
            /\ HoldsFloat(MassKey(lan_call.size, lan_call.pmtype, lan_call.ch))) =>
                /\ lan_ret.t = "Some"
                /\ lan_ret.v = meas.json[MassKey(lan_call.size, lan_call.pmtype, lan_call.ch)].v

\* the document holds pm5_0_atm, and the mass of 5.0 um was still None
C6_Witness ==
    /\ IsLan /\ lan_call.op = "particulate_mass"
    /\ lan_call.size = "Pm5v0" /\ lan_call.pmtype = "Atm" /\ lan_call.ch = "A"
    /\ HoldsFloat("pm5_0_atm")
    /\ lan_ret.t = "None"

\* the kinds a stored value has: a non-negative integer that fits i64 is both
\* an int64 and a uint64
KindsOf(value) ==
    CASE value.ty = "Float" -> {"F64"}
      [] value.ty = "String" -> {"String"}
      [] value.ty = "NegInt" -> {"I64"}
      [] value.ty = "PosInt" -> IF value.hi = 0 THEN {"I64", "U64"} ELSE {"U64"}
      [] OTHER -> {}

\* what get_f64 / get_i64 / get_u64 / get_string hand out of a stored value
Payload(value, ty) ==
    CASE ty = "F64" -> value.v
      [] ty = "I64" -> value.v
      [] ty = "String" -> value.s
      [] ty = "U64" -> [hi |-> value.hi, lo |-> value.v]

\* C7: get fails fatally when the key is missing or the stored value is not of
\* the expected kind, and otherwise returns the stored value unchanged; a value
\* of another kind is never converted.
C7_TypedAccessor ==
    (IsLan /\ lan_call.op \in {"get", "get_typed"}) =>
        LET fits == ~Missing(lan_call.key) /\ lan_call.ty \in KindsOf(meas.json[lan_call.key])
        IN  /\ ~fits => lan_ret.t = "Panic"
            /\ fits => lan_ret.t = "Ok"
            /\ (fits /\ lan_call.op = "get") => lan_ret.v = meas.json[lan_call.key]
            /\ (fits /\ lan_call.op = "get_typed")
                  => lan_ret.v = Payload(meas.json[lan_call.key], lan_call.ty)

\* a string was asked for as a float, and the call panicked
C7_Witness ==
    /\ IsLan /\ lan_call.op = "get_typed"
    /\ lan_call.key = "pm2_5_cf_1_b" /\ lan_call.ty = "F64"
    /\ ~Missing("pm2_5_cf_1_b") /\ meas.json["pm2_5_cf_1_b"].ty = "String"
    /\ lan_ret.t = "Panic"

\* C8: pm_2v5_aqi_epa is None exactly when pm_2v5_epa_correction is None, and
\* otherwise is get_aqi of the value pm_2v5_epa_correction returns.
C8_AqiOfCorrection ==
    lan_call.op = "pm_2v5_aqi_epa" =>
        LET e == pm_2v5_epa_correction(meas)
        IN  /\ (lan_ret.t = "None") <=> (e.t = "None")
            /\ e.t = "Some" => (lan_ret.t = "Some" /\ lan_ret.v = get_aqi(Fin(e.v)))

\* channel A has a value and channel B has none: no correction, and no AQI
C8_Witness ==
    /\ lan_call.op = "pm_2v5_aqi_epa"
    /\ meas.kind = "Other" /\ meas.pm["A"].t = "Some" /\ meas.pm["B"].t = "None"
    /\ lan_ret.t = "None"

(***************************************************************************)
(* Claim about get_measurement (checked under SpecSensor).                 *)
(***************************************************************************)
\* C9: a call of get_measurement issues exactly one GET, to construct_url's
\* URL, and never retries; on a failed request or a body that is no JSON object
\* it returns the error without constructing a measurement; on success it
\* constructs exactly one measurement, from the parsed document.
C9_OneRequest ==
    /\ n_get <= 1 /\ n_construct <= 1
    /\ pc = "returned" =>
          /\ n_get = 1
          /\ gm.req = construct_url(sensor)
          /\ gm_ret.t \in {"Ok", "Err"}
          /\ gm_ret.t = "Err" => n_construct = 0
          /\ gm.body.kind # "object" => gm_ret.t = "Err"
          /\ gm_ret.t = "Ok" =>
                /\ n_construct = 1
                /\ gm.body.kind = "object"
                /\ gm_ret.v.kind = "Lan"
                /\ gm_ret.v.json = gm.body.json

\* the second call got a body that is no JSON object and returned the error
C9_Witness ==
    /\ pc = "returned" /\ n_calls = 2
    /\ gm.body.kind = "array"
    /\ gm_ret.t = "Err" /\ n_get = 1 /\ n_construct = 0

====
